---- MODULE Spec2Model ----
(***************************************************************************)
(* Scoring orchestration of the KubeCon event scorer: batching, the score  *)
(* cache and the bounded retry loop of scorer.py, with the response parser *)
(* of providers/base.py.                                                    *)
(***************************************************************************)
EXTENDS Integers, Sequences, FiniteSets, TLC

(* ----------------------------- bounds ---------------------------------- *)

\* longest event list handed to score_all_events
MaxEvents == 3
\* longest event list of the calls that share a cache file
MaxCacheEvents == 2
\* largest batch_size tried
MaxBatchSize == 2
\* largest max_retries tried
MaxRetries == 2
\* most entries of one scorer response
MaxResp == 2
\* most events of the one day handed to generate_report
MaxDayEvents == 5

(* ------------------------ program constants ---------------------------- *)

RoleMax == 35
TopicMax == 35
StrategicMax == 30
\* the lowest score of a top pick
PickThreshold == 50
\* the conflict names an annotation keeps
TopNames == 3

(* ------------------------------ data ----------------------------------- *)

\* models.Event, reduced to the fields the orchestrator reads (uid) and one
\* field that tells two events with the same uid apart (summary)
Event(u, s) == [uid |-> u, summary |-> s]

\* models.ScoredEvent
ScoredEvent(e, sc, ro, to, st, re) ==
    [event |-> e, score |-> sc, role_relevance |-> ro, topic_alignment |-> to,
     strategic_value |-> st, reasoning |-> re]

\* ScoredEvent(event=e, reasoning=re): the dataclass defaults are all 0
DefaultScored(e, re) == ScoredEvent(e, 0, 0, 0, 0, re)

Range(s) == {s[i] : i \in DOMAIN s}

SetMax(S) == CHOOSE x \in S : \A y \in S : y <= x

Max2(a, b) == IF a >= b THEN a ELSE b

Min2(a, b) == IF a <= b THEN a ELSE b

RECURSIVE Pow2(_)
Pow2(n) == IF n = 0 THEN 1 ELSE 2 * Pow2(n - 1)

\* the events of the feed in the order parse_ics leaves them (sorted by start)
FeedEvents ==
    <<Event("u1", "A"), Event("u2", "B"), Event("u1", "C"), Event("u3", "D")>>

\* the elements of s at the positions of I, in order
RECURSIVE Pick(_, _)
Pick(s, I) ==
    IF I = {} THEN <<>>
    ELSE LET i == CHOOSE x \in I : \A y \in I : x <= y
         IN  <<s[i]>> \o Pick(s, I \ {i})

\* the event lists of length at most n a run is started with: what
\* filter_scorable can keep of the feed (it drops events and keeps the order)
EventLists(n) ==
    {Pick(FeedEvents, I) :
        I \in {J \in SUBSET DOMAIN FeedEvents : Cardinality(J) <= n}}

(* --------------------------- create_batches ---------------------------- *)

\* only the full batches: the events behind the last full batch are dropped
create_batches_full(evs, size) ==
    LET n == Len(evs) \div size
    IN  [k \in 1..n |-> SubSeq(evs, (k - 1) * size + 1, k * size)]

\* [events[i : i + batch_size] for i in range(0, len(events), batch_size)]
create_batches(evs, size) ==
    LET n == (Len(evs) + size - 1) \div size
    IN  [k \in 1..n |->
            SubSeq(evs, (k - 1) * size + 1, Min2(k * size, Len(evs)))]

(* ------------------------------ _clamp --------------------------------- *)

\* int(value) without the max and min
clamp_off(value, lo, hi) == value

\* max(lo, min(hi, int(value))) on an integer value
clamp(value, lo, hi) == Max2(lo, Min2(hi, value))

(* ------------------------- _parse_response ----------------------------- *)

\* {e.uid: e for e in events}: a later event replaces an earlier one of the
\* same uid
event_map(evs) ==
    [u \in {evs[i].uid : i \in DOMAIN evs} |->
        evs[SetMax({i \in DOMAIN evs : evs[i].uid = u})]]

\* one entry of a scorer response (a JSON object); "score" is the total the
\* scorer claims, which _parse_response never reads
RespItem(u, ro, to, st, re) ==
    [uid |-> u, score |-> 100, role_relevance |-> ro, topic_alignment |-> to,
     strategic_value |-> st, reasoning |-> re]

\* the entries a response is built from: out-of-range components, in-range
\* components, and a uid no event has
ResponseItems ==
    {RespItem("u1", 40, -3, 10, "r1"), RespItem("u2", 30, 30, 25, "r2"),
     RespItem("zz", 1, 1, 1, "r3")}

\* what one call of provider.score_batch can meet: _call_api raises; the text
\* holds no JSON array ("nolist"); it is an array with an element that is not
\* an object ("nondict"); it is an array of at most n objects (possibly none)
ScorerOutcomes(n) ==
    {[kind |-> "raise", items |-> <<>>], [kind |-> "nolist", items |-> <<>>],
     [kind |-> "nondict", items |-> <<>>]}
    \cup {[kind |-> "list", items |-> s] :
            s \in UNION {[1..k -> ResponseItems] : k \in 0..n}}

\* entries of equal total for two events
TieItems ==
    {RespItem("u1", 10, 10, 10, "t1"), RespItem("u2", 10, 10, 10, "t2")}

\* the responses that are arrays of 1 to n of the given entries
ListOutcomes(items, n) ==
    {[kind |-> "list", items |-> s] :
        s \in UNION {[1..k -> items] : k \in 1..n}}

\* the loop over the response entries (base.py 151-172)
RECURSIVE ParseItems(_, _)
ParseItems(items, emap) ==
    IF items = <<>> THEN <<>>
    ELSE LET item == Head(items)
             role == clamp(item.role_relevance, 0, RoleMax)
             topic == clamp(item.topic_alignment, 0, TopicMax)
             strategic == clamp(item.strategic_value, 0, StrategicMax)
             rest == ParseItems(Tail(items), emap)
         IN  IF item.uid \notin DOMAIN emap THEN rest
             ELSE <<ScoredEvent(emap[item.uid], role + topic + strategic,
                                role, topic, strategic, item.reasoning)>>
                  \o rest

\* base.py 175-178 left out: the events the response skipped get no entry
NotScored_none(evs, scored) == <<>>

\* the events of evs whose uid is not among the scored ones (base.py 175-178)
NotScored(evs, scored) ==
    LET scored_uids == {scored[i].event.uid : i \in DOMAIN scored}
        left == SelectSeq(evs, LAMBDA e : e.uid \notin scored_uids)
    IN  [i \in DOMAIN left |-> DefaultScored(left[i], "Not scored by AI")]

\* _parse_response on the decoded response; raised: the AttributeError of
\* item.get on an element that is not an object
parse_response(response, evs) ==
    IF response.kind = "nondict" THEN [raised |-> TRUE, value |-> <<>>]
    ELSE IF response.kind = "nolist" \/ response.items = <<>>
    THEN [raised |-> FALSE,
          value |-> [i \in DOMAIN evs |-> DefaultScored(evs[i], "Scoring failed")]]
    ELSE LET scored == ParseItems(response.items, event_map(evs))
         IN  [raised |-> FALSE, value |-> scored \o NotScored(evs, scored)]

\* AIProvider.score_batch: the API call, then the parse
score_batch(outcome, evs) ==
    IF outcome.kind = "raise" THEN [raised |-> TRUE, value |-> <<>>]
    ELSE parse_response(outcome, evs)

(* ------------------------- cache: file names --------------------------- *)

\* str.lower on the characters profile names are written with
Lower(c) == CASE c = "A" -> "a" [] c = "B" -> "b" [] OTHER -> c

\* profile.name.lower().replace(" ", "_")
safe_name(name) ==
    [i \in DOMAIN name |-> IF Lower(name[i]) = " " THEN "_" ELSE Lower(name[i])]

\* models.Profile, reduced to the name; a name is its sequence of characters
Profiles == {[name |-> <<"A", " ", "B">>], [name |-> <<"a", "_", "b">>]}

\* the calendar feeds a run can be given
Feeds == {"feed1", "feed2"}

\* hashlib.sha256(ics_path.read_bytes()).hexdigest()[:12], on the two feeds
ics_content_hash(ics) == IF ics = "feed1" THEN "0a" ELSE "1b"

\* CACHE_DIR / f"scores_{safe_name}_{content_hash}.json"
cache_path(profile, content_hash) ==
    <<"scores_">> \o safe_name(profile.name) \o <<"_", content_hash, ".json">>

CachePaths ==
    {cache_path(p, ics_content_hash(f)) : p \in Profiles, f \in Feeds}

(* ------------------------- cache: file contents ------------------------ *)

\* what open/json.load meet at a cache path: no file ("absent"), a file that
\* cannot be read ("unreadable"), text that is not JSON ("badjson"), a JSON
\* array ("list", with its elements), or JSON of another type: a number or
\* null ("scalar"), a non-empty object ("object"), an empty object or string
\* ("empty")
File(kind, items) == [kind |-> kind, items |-> items]

Absent == File("absent", <<>>)

CacheFields ==
    {"uid", "score", "role_relevance", "topic_alignment", "strategic_value",
     "reasoning"}

\* the record _save_scores writes for one scored event
CacheItem(se) ==
    [uid |-> se.event.uid, score |-> se.score,
     role_relevance |-> se.role_relevance,
     topic_alignment |-> se.topic_alignment,
     strategic_value |-> se.strategic_value, reasoning |-> se.reasoning]

\* the loop of _load_cached_scores (scorer.py 70-83); exc: the TypeError of
\* item["uid"] on an element that is not an object, the KeyError of
\* item["uid"], item["score"], ... on an object without that key
RECURSIVE LoadItems(_, _)
LoadItems(items, emap) ==
    IF items = <<>> THEN [exc |-> "none", value |-> <<>>]
    ELSE LET item == Head(items)
             rest == LoadItems(Tail(items), emap)
         IN  IF "uid" \notin DOMAIN item
             THEN [exc |-> IF "nondict" \in DOMAIN item THEN "TypeError"
                           ELSE "KeyError",
                   value |-> <<>>]
             ELSE IF item.uid \notin DOMAIN emap THEN rest
             ELSE IF ~(CacheFields \subseteq DOMAIN item)
             THEN [exc |-> "KeyError", value |-> <<>>]
             ELSE IF rest.exc # "none" THEN rest
             ELSE [exc |-> "none",
                   value |-> <<ScoredEvent(emap[item.uid], item.score,
                                           item.role_relevance,
                                           item.topic_alignment,
                                           item.strategic_value,
                                           item.reasoning)>> \o rest.value]

Miss == [exc |-> "none", hit |-> FALSE, value |-> <<>>]

Raise(e) == [exc |-> e, hit |-> FALSE, value |-> <<>>]

\* scorer.py 85-88 with a weaker test: a hit whenever some entry matched
load_result_any(scored, evs) ==
    IF Len(scored) > 0 \/ Len(evs) = 0
    THEN [exc |-> "none", hit |-> TRUE, value |-> scored]
    ELSE Miss

\* scorer.py 85-88: "Only use cache if we have scores for all events"
load_result(scored, evs) ==
    IF Len(scored) = Len(evs)
    THEN [exc |-> "none", hit |-> TRUE, value |-> scored]
    ELSE Miss

\* _load_cached_scores; hit: a list is returned, otherwise None; exc: the
\* exception that leaves the function (only JSONDecodeError and OSError are
\* caught, scorer.py 62-66)
load_cached_scores(file, evs) ==
    CASE file.kind \in {"absent", "unreadable", "badjson"} -> Miss
      [] file.kind \in {"scalar", "object"} -> Raise("TypeError")
      [] file.kind = "empty" -> load_result(<<>>, evs)
      [] OTHER ->
            LET r == LoadItems(file.items, event_map(evs))
            IN  IF r.exc # "none" THEN Raise(r.exc)
                ELSE load_result(r.value, evs)

\* what the file system does to the write of _save_scores: it succeeds, mkdir
\* or open fails (the file is left as it was), or the write fails after open
\* has truncated the file
WriteOutcomes == {"ok", "open_fails", "write_fails"}

\* _save_scores; raised: the OSError of mkdir, open or write
save_scores(file, scored, w) ==
    CASE w = "ok" ->
            [raised |-> FALSE,
             file |-> File("list", [i \in DOMAIN scored |-> CacheItem(scored[i])])]
      [] w = "open_fails" -> [raised |-> TRUE, file |-> file]
      [] OTHER -> [raised |-> TRUE, file |-> File("badjson", <<>>)]

(* --------------------------- the final sort ---------------------------- *)

\* x put behind every element whose score is at least its own
InsertByScore(sorted, x) ==
    LET keep == {i \in DOMAIN sorted : sorted[i].score >= x.score}
        k == IF keep = {} THEN 0 ELSE SetMax(keep)
    IN  SubSeq(sorted, 1, k) \o <<x>> \o SubSeq(sorted, k + 1, Len(sorted))

RECURSIVE SortFrom(_, _)
SortFrom(sorted, rest) ==
    IF rest = <<>> THEN sorted
    ELSE SortFrom(InsertByScore(sorted, Head(rest)), Tail(rest))

\* all_scored.sort(key=lambda se: -se.score): stable, descending by score
sort_by_score(scored) == SortFrom(<<>>, scored)

(* ------------------------------ scenarios ------------------------------ *)

\* A behaviour runs in one scenario, fixed by its initial state: "scoring" is
\* one call of score_all_events with every batch size and retry count, an
\* empty cache directory and responses of at most one entry; "cache" is any
\* number of calls, one after the other, with max_retries = 0 and responses
\* of at most MaxResp entries; "corrupt" is one call that finds any file at
\* its cache path; "order" is one call whose responses list entries of equal
\* total in any order; "keys" is any number of calls for two profiles and two
\* feeds, each with at most one event and responses without entries.
Repeats(sc) == sc \in {"cache", "keys"}

RetriesOf(sc) == IF sc = "scoring" THEN 0..MaxRetries ELSE {0}

ProfilesOf(sc) == IF sc = "keys" THEN Profiles ELSE {[name |-> <<"A", " ", "B">>]}

FeedsOf(sc) == IF sc = "keys" THEN Feeds ELSE {"feed1"}

EventListsOf(sc) ==
    CASE sc = "scoring" -> EventLists(MaxEvents)
      [] sc = "keys" -> EventLists(1)
      [] OTHER -> EventLists(MaxCacheEvents)

BatchSizesOf(sc) == IF sc = "keys" THEN {1} ELSE 1..MaxBatchSize

OutcomesOf(sc) ==
    CASE sc = "cache" -> ScorerOutcomes(MaxResp)
      [] sc = "order" -> ScorerOutcomes(0) \cup ListOutcomes(TieItems, MaxResp)
      [] sc = "keys" -> ScorerOutcomes(0)
      [] OTHER -> ScorerOutcomes(1)

(* --------------------------- score_all_events -------------------------- *)

VARIABLES
    scenario,    \* the scenario of the behaviour
    pc,          \* "idle", "scoring" (inside the batch loop), "returned",
                 \* "raised", "exited" (no further call follows)
    args,        \* the arguments of the call in progress (or of the last call)
    batches,     \* create_batches(events, batch_size)
    batch_no,    \* the batch the loop is at (1-based)
    attempt,     \* the attempt the loop is at (0-based)
    all_scored,  \* the accumulator
    store,       \* the cache directory: what each cache path holds
    result,      \* the list the call returned
    exc,         \* the exception the call raised to its caller
    calls,       \* per batch of this call, what each scorer call came to
    waits,       \* per batch of this call, the time.sleep arguments
    saves,       \* writes of the cache file attempted by this call
    origin,      \* per cache path, the call whose list the file holds
    before,      \* the cache file of this call as the call found it, its
                 \* origin, and whether the lookup was a hit
    parsed,      \* the last call of _parse_response made on its own: the
                 \* batch, the response and what the call came to
    rpc,         \* where generate_report is: "off", "start", "grouped",
                 \* "slotted", "annotated", "picked", "clustered"
    scored_events, \* the list generate_report was called with
    day_events,  \* by_day[day_key] of the one day of the list
    timeslots,   \* build_timeslots(day_events)
    annotated,   \* per timeslot, _annotate_direct_conflicts(ts.events)
    top_picks,   \* top_picks[day_key]
    clusters     \* per timeslot, the conflict clusters of its members

\* what the steps of score_all_events leave alone
report_vars ==
    <<rpc, scored_events, day_events, timeslots, annotated, top_picks,
      clusters>>

derived == <<parsed, report_vars>>

vars ==
    <<scenario, pc, args, batches, batch_no, attempt, all_scored, store,
      result, exc, calls, waits, saves, origin, before, parsed, rpc,
      scored_events, day_events, timeslots, annotated, top_picks, clusters>>

\* the argument tuples of score_all_events
Args(evs, profile, ics, batch_size, no_cache, max_retries) ==
    [events |-> evs, profile |-> profile, ics_path |-> ics,
     batch_size |-> batch_size, no_cache |-> no_cache,
     max_retries |-> max_retries]

ArgSets(sc) ==
    {Args(e, p, f, b, n, m) :
        e \in EventListsOf(sc), p \in ProfilesOf(sc), f \in FeedsOf(sc),
        b \in BatchSizesOf(sc), n \in BOOLEAN, m \in RetriesOf(sc)}

NoArgs == Args(<<>>, [name |-> <<"A", " ", "B">>], "feed1", 1, TRUE, 0)

\* no call of the behaviour wrote the file
NoOrigin ==
    [written |-> FALSE, events |-> <<>>, profile |-> NoArgs.profile,
     ics_path |-> NoArgs.ics_path, result |-> <<>>]

RECURSIVE SumLen(_)
SumLen(s) == IF s = <<>> THEN 0 ELSE Len(Head(s)) + SumLen(Tail(s))

\* scorer calls made by the call in progress
NCalls == SumLen(calls)

\* the cache path of a call (scorer.py 119-120)
PathOf(a) == cache_path(a.profile, ics_content_hash(a.ics_path))

\* _parse_response has not been called on its own
NoParse ==
    [events |-> <<>>, response |-> [kind |-> "none", items |-> <<>>],
     raised |-> FALSE, value |-> <<>>]

InitCall ==
    /\ pc = "idle"
    /\ args = NoArgs
    /\ batches = <<>>
    /\ batch_no = 0
    /\ attempt = 0
    /\ all_scored = <<>>
    /\ result = <<>>
    /\ exc = "none"
    /\ calls = <<>>
    /\ waits = <<>>
    /\ saves = 0
    /\ origin = [f \in CachePaths |-> NoOrigin]
    /\ before = [file |-> Absent, origin |-> NoOrigin, hit |-> FALSE]

\* generate_report has not read anything yet
InitReportOff ==
    /\ day_events = <<>>
    /\ timeslots = <<>>
    /\ annotated = <<>>
    /\ top_picks = <<>>
    /\ clusters = <<>>

InitRun ==
    /\ InitCall
    /\ parsed = NoParse
    /\ rpc = "off"
    /\ scored_events = <<>>
    /\ InitReportOff

Init ==
    /\ scenario = "scoring"
    /\ store = [f \in CachePaths |-> Absent]
    /\ InitRun

InitCache ==
    /\ scenario = "cache"
    /\ store = [f \in CachePaths |-> Absent]
    /\ InitRun

InitOrder ==
    /\ scenario = "order"
    /\ store = [f \in CachePaths |-> Absent]
    /\ InitRun

InitKeys ==
    /\ scenario = "keys"
    /\ store = [f \in CachePaths |-> Absent]
    /\ InitRun

\* the elements of a cache file this program did not write: a complete
\* record, a record without the score fields, a record of an unknown uid
\* without them, an element that is not an object
ForeignItems ==
    {[uid |-> "u1", score |-> 45, role_relevance |-> 35, topic_alignment |-> 0,
      strategic_value |-> 10, reasoning |-> "r1"],
     [uid |-> "u2", reasoning |-> "r2"], [uid |-> "zz"], [nondict |-> TRUE]}

\* the files a call can find at its cache path
ForeignFiles ==
    {File(k, <<>>) :
        k \in {"absent", "unreadable", "badjson", "scalar", "object", "empty"}}
    \cup {File("list", s) : s \in UNION {[1..k -> ForeignItems] : k \in 1..2}}

InitCorrupt ==
    /\ scenario = "corrupt"
    /\ \E file \in ForeignFiles :
          store = [f \in CachePaths |->
                      IF f = PathOf(NoArgs) THEN file ELSE Absent]
    /\ InitRun

\* scorer.py 154-162 without the sort
finish_unsorted(a, acc, w) ==
    IF a.no_cache
    THEN [pc |-> "returned", result |-> acc, file |-> store[PathOf(a)],
          exc |-> "none", saves |-> 0]
    ELSE LET s == save_scores(store[PathOf(a)], acc, w)
         IN  IF s.raised
             THEN [pc |-> "raised", result |-> <<>>, file |-> s.file,
                   exc |-> "OSError", saves |-> 1]
             ELSE [pc |-> "returned", result |-> acc, file |-> s.file,
                   exc |-> "none", saves |-> 1]

\* scorer.py 154-162: sort, save unless no_cache, return; the OSError of
\* _save_scores is not caught
finish(a, acc, w) == finish_unsorted(a, sort_by_score(acc), w)

\* the end of the call: the part of the state finish decides
Finished(a, acc, w) ==
    LET f == finish(a, acc, w)
    IN  /\ pc' = f.pc
        /\ result' = f.result
        /\ exc' = f.exc
        /\ store' = [store EXCEPT ![PathOf(a)] = f.file]
        /\ saves' = f.saves
        /\ all_scored' = sort_by_score(acc)
        /\ origin' =
              IF f.saves = 0 THEN origin
              ELSE IF f.pc = "returned"
              THEN [origin EXCEPT ![PathOf(a)] =
                        [written |-> TRUE, events |-> a.events,
                         profile |-> a.profile, ics_path |-> a.ics_path,
                         result |-> f.result]]
              ELSE IF f.file = store[PathOf(a)] THEN origin
              ELSE [origin EXCEPT ![PathOf(a)] = NoOrigin]

\* scorer.py 122-127: the lookup, skipped under no_cache
\* the cache file is looked up whatever no_cache says
lookup_always(a, file) == load_cached_scores(file, a.events)

\* scorer.py 122-127: the lookup is made unless no_cache is set
lookup(a, file) ==
    IF a.no_cache THEN Miss ELSE load_cached_scores(file, a.events)

\* scorer.py 119-133: the cache lookup and, on a miss, the batching
score_all_events(a, w) ==
    /\ pc = "idle"
    /\ args' = a
    /\ attempt' = 0
    /\ before' = [file |-> store[PathOf(a)], origin |-> origin[PathOf(a)],
                  hit |-> lookup(a, store[PathOf(a)]).hit]
    /\ UNCHANGED scenario
    /\ LET cached == lookup(a, store[PathOf(a)])
           bs == create_batches(a.events, a.batch_size)
       IN  IF cached.exc # "none" \/ cached.hit
           THEN /\ pc' = IF cached.hit THEN "returned" ELSE "raised"
                /\ exc' = cached.exc
                /\ result' = cached.value
                /\ all_scored' = <<>>
                /\ saves' = 0
                /\ batches' = <<>>
                /\ batch_no' = 0
                /\ calls' = <<>>
                /\ waits' = <<>>
                /\ UNCHANGED <<store, origin>>
           ELSE /\ batches' = bs
                /\ calls' = [k \in DOMAIN bs |-> <<>>]
                /\ waits' = [k \in DOMAIN bs |-> <<>>]
                /\ IF bs = <<>>
                   THEN /\ batch_no' = 0
                        /\ Finished(a, <<>>, w)
                   ELSE /\ batch_no' = 1
                        /\ pc' = "scoring"
                        /\ all_scored' = <<>>
                        /\ result' = <<>>
                        /\ exc' = "none"
                        /\ saves' = 0
                        /\ UNCHANGED <<store, origin>>

\* the placeholders of a batch that exhausted its attempts (scorer.py 149-152)
placeholders(batch) ==
    [i \in DOMAIN batch |-> DefaultScored(batch[i], "Scoring failed: error")]

\* scorer.py 136-152 with "except Exception" catching nothing once the
\* attempts are used up: the exception of the last attempt propagates
attempt_step_reraise(r, att, max_retries, batch) ==
    IF ~r.raised
    THEN [done |-> TRUE, add |-> r.value, sleep |-> 0, propagate |-> FALSE]
    ELSE IF att < max_retries
    THEN [done |-> FALSE, add |-> <<>>, sleep |-> Pow2(att + 1),
          propagate |-> FALSE]
    ELSE [done |-> TRUE, add |-> <<>>, sleep |-> 0, propagate |-> TRUE]

\* scorer.py 136-152 without lines 149-152: an exhausted batch adds nothing
attempt_step_drop(r, att, max_retries, batch) ==
    IF ~r.raised
    THEN [done |-> TRUE, add |-> r.value, sleep |-> 0, propagate |-> FALSE]
    ELSE IF att < max_retries
    THEN [done |-> FALSE, add |-> <<>>, sleep |-> Pow2(att + 1),
          propagate |-> FALSE]
    ELSE [done |-> TRUE, add |-> <<>>, sleep |-> 0, propagate |-> FALSE]

\* scorer.py 136-152 with range(max_retries + 2): one attempt more
attempt_step_extra(r, att, max_retries, batch) ==
    IF ~r.raised
    THEN [done |-> TRUE, add |-> r.value, sleep |-> 0, propagate |-> FALSE]
    ELSE IF att <= max_retries
    THEN [done |-> FALSE, add |-> <<>>, sleep |-> Pow2(att + 1),
          propagate |-> FALSE]
    ELSE [done |-> TRUE, add |-> placeholders(batch), sleep |-> 0,
          propagate |-> FALSE]

\* scorer.py 136-152 with wait = 2 ** attempt
attempt_step_early(r, att, max_retries, batch) ==
    IF ~r.raised
    THEN [done |-> TRUE, add |-> r.value, sleep |-> 0, propagate |-> FALSE]
    ELSE IF att < max_retries
    THEN [done |-> FALSE, add |-> <<>>, sleep |-> Pow2(att),
          propagate |-> FALSE]
    ELSE [done |-> TRUE, add |-> placeholders(batch), sleep |-> 0,
          propagate |-> FALSE]

\* what one attempt does to the loop (scorer.py 136-152): done: the batch is
\* over; add: what it appends to all_scored; sleep: the time.sleep argument;
\* propagate: the exception leaves score_all_events (except Exception catches
\* every exception of the call, so it never does)
attempt_step(r, att, max_retries, batch) ==
    IF ~r.raised
    THEN [done |-> TRUE, add |-> r.value, sleep |-> 0, propagate |-> FALSE]
    ELSE IF att < max_retries
    THEN [done |-> FALSE, add |-> <<>>, sleep |-> Pow2(att + 1),
          propagate |-> FALSE]
    ELSE [done |-> TRUE, add |-> placeholders(batch), sleep |-> 0,
          propagate |-> FALSE]

\* the entries of the batch are put in front of the earlier ones
extend_front(acc, add) == add \o acc

\* all_scored.extend(...) (scorer.py 139, 149)
extend(acc, add) == acc \o add

\* one pass of the inner loop (scorer.py 136-152): a scorer call with outcome
\* o; after the last batch, the sort, the save and the return
ScoreAttempt(o, w) ==
    /\ pc = "scoring"
    /\ LET batch == batches[batch_no]
           r == score_batch(o, batch)
           st == attempt_step(r, attempt, args.max_retries, batch)
           acc == extend(all_scored, st.add)
       IN  /\ calls' = [calls EXCEPT ![batch_no] =
                            Append(@, [ok |-> ~r.raised, value |-> r.value])]
           /\ waits' = IF st.sleep > 0
                       THEN [waits EXCEPT ![batch_no] = Append(@, st.sleep)]
                       ELSE waits
           /\ IF st.propagate
              THEN /\ pc' = "raised"
                   /\ exc' = "ScorerError"
                   /\ UNCHANGED <<attempt, batch_no, all_scored, store, result,
                                  saves, origin>>
              ELSE IF ~st.done
              THEN /\ attempt' = attempt + 1
                   /\ UNCHANGED <<pc, batch_no, all_scored, store, result, exc,
                                  saves, origin>>
              ELSE IF batch_no < Len(batches)
              THEN /\ attempt' = 0
                   /\ batch_no' = batch_no + 1
                   /\ all_scored' = acc
                   /\ UNCHANGED <<pc, store, result, exc, saves, origin>>
              ELSE /\ attempt' = 0
                   /\ batch_no' = batch_no
                   /\ Finished(args, acc, w)
    /\ UNCHANGED <<scenario, args, batches, before>>

\* the write outcomes that can make a difference: _save_scores is reached
\* only behind the last batch of a call with the cache enabled
WritesAt(a, last) == IF last /\ ~a.no_cache THEN WriteOutcomes ELSE {"ok"}

Start ==
    /\ pc = "idle"
    /\ \E a \in ArgSets(scenario) :
          \E w \in WritesAt(a, a.events = <<>>) : score_all_events(a, w)
    /\ UNCHANGED derived

Attempt ==
    /\ pc = "scoring"
    /\ \E o \in OutcomesOf(scenario) :
          \E w \in WritesAt(args, batch_no = Len(batches)) : ScoreAttempt(o, w)
    /\ UNCHANGED derived

\* the process ends after the call (kubecon_scorer.py 105-126); the cache
\* directory is what the next process finds
Exit ==
    /\ pc \in {"returned", "raised"}
    /\ pc' = IF Repeats(scenario) THEN "idle" ELSE "exited"
    /\ args' = NoArgs
    /\ batches' = <<>>
    /\ batch_no' = 0
    /\ attempt' = 0
    /\ all_scored' = <<>>
    /\ result' = <<>>
    /\ exc' = "none"
    /\ calls' = <<>>
    /\ waits' = <<>>
    /\ saves' = 0
    /\ before' = [file |-> Absent, origin |-> NoOrigin, hit |-> FALSE]
    /\ UNCHANGED <<scenario, store, origin>>
    /\ UNCHANGED derived

Next == Start \/ Attempt \/ Exit

Spec == Init /\ [][Next]_vars

\* every scorer call comes back (it returns or raises) and every sleep
\* ends, so a pass of the batch loop that can be made is made; a process
\* whose call has ended exits
SpecLive == Init /\ [][Next]_vars /\ WF_vars(Attempt) /\ WF_vars(Exit)

SpecCache == InitCache /\ [][Next]_vars

SpecCorrupt == InitCorrupt /\ [][Next]_vars

SpecOrder == InitOrder /\ [][Next]_vars

SpecKeys == InitKeys /\ [][Next]_vars

(* --------------------- _parse_response on its own ---------------------- *)

\* the state of score_all_events, which these steps leave alone
call_vars ==
    <<scenario, pc, args, batches, batch_no, attempt, all_scored, store,
      result, exc, calls, waits, saves, origin, before>>

\* the batches create_batches can hand over: never an empty one
Batches == EventLists(MaxBatchSize) \ {<<>>}

\* the responses _call_api can return
Responses == ScorerOutcomes(MaxResp) \ {[kind |-> "raise", items |-> <<>>]}

InitParse ==
    /\ scenario = "parse"
    /\ store = [f \in CachePaths |-> Absent]
    /\ InitRun

\* one call of _parse_response (base.py 125-180)
Parse ==
    /\ \E evs \in Batches, response \in Responses :
          LET r == parse_response(response, evs)
          IN  parsed' = [events |-> evs, response |-> response,
                         raised |-> r.raised, value |-> r.value]
    /\ UNCHANGED <<call_vars, report_vars>>

NextParse == Parse

SpecParse == InitParse /\ [][NextParse]_vars

(* ------------------- the interval and conflict engine ------------------ *)

\* models.Event with the fields the engine reads: minutes from midnight of
\* the one day for dtstart and dtend
TimedEvent(u, s, start, end) ==
    [uid |-> u, summary |-> s, dtstart |-> start, dtend |-> end]

\* the events of one day of the feed: every one ends after it starts; B
\* overlaps A, E, F and C, A and C do not overlap, F starts where A ends,
\* D stands alone
DayPool ==
    <<TimedEvent("d1", "A", 0, 30), TimedEvent("d2", "E", 0, 30),
      TimedEvent("d3", "B", 20, 50), TimedEvent("d4", "F", 30, 50),
      TimedEvent("d5", "C", 45, 70), TimedEvent("d6", "D", 100, 130)>>

\* the events of another day: two in the window 9:00-10:00 and one at
\* 11:00-12:00
HourPool ==
    <<TimedEvent("h1", "G", 540, 600), TimedEvent("h2", "H", 540, 600),
      TimedEvent("h3", "I", 660, 720)>>

\* the totals the scorer gave
DayScores == {40, 70, 90}

\* a ScoredEvent of total sc, as _parse_response builds it
Scored(e, sc) ==
    LET ro == clamp(sc, 0, RoleMax)
        to == clamp(sc - ro, 0, TopicMax)
    IN  ScoredEvent(e, sc, ro, to, sc - ro - to, "r")

\* the lists score_all_events returns for the events of one day: sorted by
\* descending score
ScoredListsOf(pool) ==
    UNION {{sort_by_score([k \in DOMAIN Pick(pool, I) |->
                              Scored(Pick(pool, I)[k], sc[k])]) :
               sc \in [1..Cardinality(I) -> DayScores]} :
           I \in {J \in SUBSET DOMAIN pool : Cardinality(J) <= MaxDayEvents}}

ScoredLists == ScoredListsOf(DayPool) \cup ScoredListsOf(HourPool)

\* only an event that starts later, inside this one, counts as a conflict
conflicts_with_later_start(self, other) ==
    self.dtstart < other.dtstart /\ other.dtstart < self.dtend

\* models.py 47-48
conflicts_with(self, other) ==
    self.dtstart < other.dtend /\ other.dtstart < self.dtend

\* sorted(s, key=...): stable; key[i] is the key of s[i]
StableSort(s, key) ==
    LET n == Len(s)
        rank(i) ==
            1 + Cardinality({j \in 1..n :
                    \/ key[j] < key[i]
                    \/ key[j] = key[i] /\ j < i})
    IN  [p \in 1..n |-> s[CHOOSE i \in 1..n : rank(i) = p]]

\* the key (se.event.dtstart, -se.score) as one number: scores are in 0..100
ByStartThenScore(scored) ==
    [i \in DOMAIN scored |-> scored[i].event.dtstart * 101 - scored[i].score]

\* the key se.event.dtstart
ByStart(scored) == [i \in DOMAIN scored |-> scored[i].event.dtstart]

\* ics_parser.py 137-147 for the events of one day
group_by_day(scored) == StableSort(scored, ByStartThenScore(scored))

\* models.TimeSlot as build_timeslots fills it
TimeSlot(start, end, events) ==
    [start |-> start, end |-> end, events |-> sort_by_score(events)]

\* an event that starts where the running end is joins the slot as well
joins_touching(se, current_end) == se.event.dtstart <= current_end

\* ics_parser.py 164
joins(se, current_end) == se.event.dtstart < current_end

\* the last slot is forgotten
last_timeslot_forgotten(start, end, events) == <<>>

\* ics_parser.py 181-188
last_timeslot(start, end, events) == <<TimeSlot(start, end, events)>>

\* ics_parser.py 163-188: the loop over sorted_events[1:] and the last slot
RECURSIVE Sweep(_, _, _, _)
Sweep(rest, current_start, current_end, current_events) ==
    IF rest = <<>>
    THEN last_timeslot(current_start, current_end, current_events)
    ELSE LET se == Head(rest)
         IN  IF joins(se, current_end)
             THEN Sweep(Tail(rest), current_start,
                        Max2(current_end, se.event.dtend),
                        Append(current_events, se))
             ELSE <<TimeSlot(current_start, current_end, current_events)>>
                  \o Sweep(Tail(rest), se.event.dtstart, se.event.dtend,
                           <<se>>)

\* ics_parser.py 150-190
build_timeslots(scored) ==
    IF scored = <<>> THEN <<>>
    ELSE LET sorted_events == StableSort(scored, ByStart(scored))
         IN  Sweep(Tail(sorted_events), sorted_events[1].event.dtstart,
                   sorted_events[1].event.dtend, <<sorted_events[1]>>)

\* models.py 91-97: some two members of the slot conflict
has_conflicts(slot) ==
    \E i, j \in DOMAIN slot.events :
        i < j /\ conflicts_with(slot.events[i].event, slot.events[j].event)

InitReport ==
    /\ scenario = "report"
    /\ store = [f \in CachePaths |-> Absent]
    /\ InitCall
    /\ parsed = NoParse
    /\ rpc = "start"
    /\ scored_events \in ScoredLists
    /\ InitReportOff

\* report.py 76
GroupByDay ==
    /\ rpc = "start"
    /\ rpc' = "grouped"
    /\ day_events' = group_by_day(scored_events)
    /\ UNCHANGED <<call_vars, parsed, scored_events, timeslots, annotated,
                   top_picks, clusters>>

\* report.py 81
BuildTimeslots ==
    /\ rpc = "grouped"
    /\ rpc' = "slotted"
    /\ timeslots' = build_timeslots(day_events)
    /\ UNCHANGED <<call_vars, parsed, scored_events, day_events, annotated,
                   top_picks, clusters>>

\* a competitor with the same score counts as the better alternative
outscores_or_ties(other, se) == other.score >= se.score

\* report.py 41: direct[0].score > se.score
outscores(other, se) == other.score > se.score

\* report.py 18-52; best_alternative is a list of at most one entry, empty
\* for None
annotate_direct_conflicts(events) ==
    [i \in DOMAIN events |->
        LET se == events[i]
            direct ==
                sort_by_score(
                    Pick(events,
                         {j \in DOMAIN events :
                             /\ j # i
                             /\ conflicts_with(se.event, events[j].event)}))
            extra == Len(direct) - TopNames
        IN  IF direct # <<>>
            THEN [scored_event |-> se,
                  has_conflict |-> TRUE,
                  conflict_count |-> Len(direct),
                  conflict_names |->
                      [k \in 1..Min2(TopNames, Len(direct)) |->
                          direct[k].event.summary],
                  conflict_extra |-> IF extra > 0 THEN extra ELSE 0,
                  best_alternative |->
                      IF outscores(direct[1], se) THEN <<direct[1]>>
                      ELSE <<>>]
            ELSE [scored_event |-> se,
                  has_conflict |-> FALSE,
                  conflict_count |-> 0,
                  conflict_names |-> <<>>,
                  conflict_extra |-> 0,
                  best_alternative |-> <<>>]]

\* every event at or above the threshold is accepted
fits_always(se, picks) == TRUE

\* report.py 124: not any(se.event.conflicts_with(p.event) for p in picks)
fits(se, picks) ==
    ~\E p \in Range(picks) : conflicts_with(se.event, p.event)

\* report.py 120-125: the loop over sorted_day
RECURSIVE Greedy(_, _)
Greedy(rest, picks) ==
    IF rest = <<>> THEN picks
    ELSE LET se == Head(rest)
         IN  IF se.score < PickThreshold THEN Greedy(Tail(rest), picks)
             ELSE IF fits(se, picks)
                  THEN Greedy(Tail(rest), Append(picks, se))
                  ELSE Greedy(Tail(rest), picks)

\* the day's events are visited in the order of the day, by start time
day_top_picks_chronological(day) ==
    LET picks == Greedy(day, <<>>)
    IN  StableSort(picks, ByStart(picks))

\* report.py 118-126 for one day
day_top_picks(day) ==
    LET picks == Greedy(sort_by_score(day), <<>>)
    IN  StableSort(picks, ByStart(picks))

\* report.py 83-92: the loop over the timeslots of the day
Annotate ==
    /\ rpc = "slotted"
    /\ rpc' = "annotated"
    /\ annotated' = [k \in DOMAIN timeslots |->
                        annotate_direct_conflicts(timeslots[k].events)]
    /\ UNCHANGED <<call_vars, parsed, scored_events, day_events, timeslots,
                   top_picks, clusters>>

\* report.py 116-126
TopPicks ==
    /\ rpc = "annotated"
    /\ rpc' = "picked"
    /\ top_picks' = day_top_picks(day_events)
    /\ UNCHANGED <<call_vars, parsed, scored_events, day_events, timeslots,
                   annotated, clusters>>

\* the members of the list that the member at i overlaps
neighbours(events, i) ==
    {j \in DOMAIN events :
        j # i /\ conflicts_with(events[i].event, events[j].event)}

\* the start and its direct neighbours only
expand_once(events, component, frontier) ==
    component \cup UNION {neighbours(events, i) : i \in frontier}

\* breadth expansion: the component grows by the unvisited neighbours of
\* its newest members until none is left
RECURSIVE expand(_, _, _)
expand(events, component, frontier) ==
    LET found == UNION {neighbours(events, i) : i \in frontier} \ component
    IN  IF found = {} THEN component
        ELSE expand(events, component \cup found, found)

\* the components of the members from position i on that no earlier start
\* has visited, those of one member left out
RECURSIVE components_from(_, _, _)
components_from(events, i, visited) ==
    IF i > Len(events) THEN <<>>
    ELSE IF i \in visited THEN components_from(events, i + 1, visited)
    ELSE LET component == expand(events, {i}, {i})
             others == components_from(events, i + 1,
                                       visited \cup component)
         IN  IF Cardinality(component) > 1 THEN <<component>> \o others
             ELSE others

\* the conflict clusters of one timeslot's member list, as sets of positions
conflict_clusters(events) == components_from(events, 1, {})

\* the cluster view of every timeslot of the day
Clusters ==
    /\ rpc = "picked"
    /\ rpc' = "clustered"
    /\ clusters' = [k \in DOMAIN timeslots |->
                       conflict_clusters(timeslots[k].events)]
    /\ UNCHANGED <<call_vars, parsed, scored_events, day_events, timeslots,
                   annotated, top_picks>>

NextReport ==
    GroupByDay \/ BuildTimeslots \/ Annotate \/ TopPicks \/ Clusters

SpecReport == InitReport /\ [][NextReport]_vars

(* =============================== claims ================================ *)

\* the call in progress or just ended got past the cache lookup as a miss
Missed ==
    /\ pc \in {"scoring", "returned", "raised"}
    /\ ~before.hit
    /\ exc \notin {"KeyError", "TypeError"}

\* the call has ended
Ended == pc \in {"returned", "raised"}

RECURSIVE Flatten(_)
Flatten(ss) == IF ss = <<>> THEN <<>> ELSE Head(ss) \o Flatten(Tail(ss))

Last(s) == s[Len(s)]

\* the uids of a list of events
UidsOf(evs) == {evs[i].uid : i \in DOMAIN evs}

\* no two events of the list share a uid
DistinctUids(evs) == Cardinality(UidsOf(evs)) = Len(evs)

\* s and t hold the same elements the same number of times
SameElements(s, t) ==
    /\ Len(s) = Len(t)
    /\ \A x \in Range(s) \cup Range(t) :
          Cardinality({i \in DOMAIN s : s[i] = x})
              = Cardinality({i \in DOMAIN t : t[i] = x})

\* the call in progress or just ended looked its cache file up and found a
\* list of records
LookedUp ==
    /\ pc \in {"scoring", "returned", "raised"}
    /\ ~args.no_cache
    /\ before.file.kind = "list"

\* the uids of the record the call found
RecordUids == {before.file.items[j].uid : j \in DOMAIN before.file.items}

\* the record the call found holds no uid twice
DistinctRecord == Cardinality(RecordUids) = Len(before.file.items)

\* the entries of the record whose uid one of the requested events has
Matching ==
    {j \in DOMAIN before.file.items :
        before.file.items[j].uid \in UidsOf(args.events)}

\* every batch of the call was handed to the scorer
EveryBatchCalled == \A k \in DOMAIN batches : Len(calls[k]) >= 1

(* C1: the list score_all_events returns has exactly one entry per input     *)
(* event (so exactly N entries), whatever the scorer's responses hold; here  *)
(* for event lists without a repeated uid, scored without a cache hit.       *)
C1_OneEntryPerEvent ==
    (pc = "returned" /\ ~before.hit /\ DistinctUids(args.events)) =>
        /\ Len(result) = Len(args.events)
        /\ \A i \in DOMAIN args.events :
              Cardinality({j \in DOMAIN result :
                              result[j].event = args.events[i]}) = 1

(* C2: a call with the cache enabled that finds the file written by an       *)
(* earlier call for the same profile, feed and events (no two of them with   *)
(* the same uid) calls the scorer zero times and returns the list that       *)
(* earlier call returned.                                                    *)
C2_SecondRunFromCache ==
    (/\ pc \in {"scoring", "returned", "raised"}
     /\ ~args.no_cache
     /\ before.origin.written
     /\ before.origin.profile = args.profile
     /\ before.origin.ics_path = args.ics_path
     /\ before.origin.events = args.events
     /\ DistinctUids(args.events))
    => (pc = "returned" /\ NCalls = 0 /\ result = before.origin.result)

(* C3: a cache hit returns a list only when the stored record holds an entry *)
(* for every uid of the requested events (no two of them with the same uid), *)
(* and the list then has one entry for every requested uid.                  *)
C3_HitCoversEveryUid ==
    (pc = "returned" /\ before.hit /\ DistinctUids(args.events)) =>
        /\ UidsOf(args.events) \subseteq RecordUids
        /\ \A e \in Range(args.events) :
              \E j \in DOMAIN result : result[j].event.uid = e.uid
        /\ Len(result) = Len(args.events)

C5_NoScorerExceptionEscapes ==
    /\ exc # "ScorerError"
    /\ pc = "raised" => (exc = "OSError" /\ saves = 1 /\ ~args.no_cache)
    /\ (Ended /\ args.no_cache) => pc = "returned"

\* a call of two batches returned although every scorer call of it failed
C5_ReturnedAfterTotalFailure ==
    /\ pc = "returned"
    /\ Len(batches) = 2
    /\ args.max_retries = MaxRetries
    /\ \A k \in DOMAIN batches :
          /\ Len(calls[k]) = MaxRetries + 1
          /\ \A i \in DOMAIN calls[k] : ~calls[k][i].ok

(* C6: a call that reaches the write of the cache file returns its computed  *)
(* list to the caller, whether or not the write succeeds.                    *)
C6_WriteFailureReturns ==
    (Ended /\ saves = 1) => (pc = "returned" /\ result = all_scored)

\* the file is corrupt or partial: unreadable, not JSON, JSON that is not an
\* array, or an array with an element that lacks a field of a record
CorruptFile(file) ==
    \/ file.kind \in {"unreadable", "badjson", "scalar", "object"}
    \/ /\ file.kind = "list"
       /\ \E j \in DOMAIN file.items : ~(CacheFields \subseteq DOMAIN file.items[j])

(* C7: a call that finds a corrupt or partial cache file treats it as a      *)
(* miss: the lookup is no hit and raises nothing.                            *)
C7_CorruptIsMiss ==
    (/\ pc \in {"scoring", "returned", "raised"}
     /\ ~args.no_cache
     /\ args.events # <<>>
     /\ CorruptFile(before.file))
    => (~before.hit /\ exc \notin {"KeyError", "TypeError"})

\* the batch used up its max_retries + 1 attempts
Exhausted(k) ==
    Len(calls[k]) = args.max_retries + 1 /\ ~Last(calls[k]).ok

\* one placeholder per event of the batch: score 0, components 0, a reasoning
\* that tells of the failure
PlaceholdersOf(batch) ==
    [i \in DOMAIN batch |->
        [event |-> batch[i], score |-> 0, role_relevance |-> 0,
         topic_alignment |-> 0, strategic_value |-> 0,
         reasoning |-> "Scoring failed: error"]]

\* what a finished batch adds to the result
Contribution(k) ==
    IF Last(calls[k]).ok THEN Last(calls[k]).value
    ELSE PlaceholdersOf(batches[k])

Contributions(n) == Flatten([k \in 1..n |-> Contribution(k)])

(* C8: an exhausted batch adds exactly one placeholder per event (score 0,   *)
(* components 0, failure reasoning), a batch with a successful attempt adds  *)
(* exactly the result of that attempt; what earlier batches added is kept,   *)
(* and the loop goes on to every later batch.                                *)
C8_PlaceholdersOnExhaustion ==
    Missed =>
        /\ pc = "scoring" => all_scored = Contributions(batch_no - 1)
        /\ Ended => /\ SameElements(all_scored, Contributions(Len(batches)))
                    /\ EveryBatchCalled

\* with max_retries = 2: a batch failed three times, and a later batch
\* succeeded on its third attempt
C8_ExhaustedThenThirdAttempt ==
    /\ pc = "returned"
    /\ args.max_retries = 2
    /\ \E k, l \in DOMAIN batches :
          /\ k < l
          /\ Exhausted(k)
          /\ Len(calls[l]) = 3
          /\ Last(calls[l]).ok

(* C9: each batch gets at least one and at most max_retries + 1 scorer       *)
(* calls; every call but the last one of a batch failed (no call follows a   *)
(* success, a retry follows only a failure); a batch is left only after a    *)
(* success or after max_retries + 1 calls.                                   *)
C9_CallsPerBatch ==
    Missed =>
        \A k \in DOMAIN batches :
            /\ Len(calls[k]) <= args.max_retries + 1
            /\ \A i \in 1..(Len(calls[k]) - 1) : ~calls[k][i].ok
            /\ (Ended \/ k < batch_no)
                  => /\ Len(calls[k]) >= 1
                     /\ Last(calls[k]).ok \/ Len(calls[k]) = args.max_retries + 1
            /\ (pc = "scoring" /\ k = batch_no)
                  => /\ Len(calls[k]) = attempt
                     /\ attempt <= args.max_retries
                     /\ \A i \in DOMAIN calls[k] : ~calls[k][i].ok
            /\ (pc = "scoring" /\ k > batch_no) => calls[k] = <<>>

\* one batch succeeded at once, another on its last allowed attempt
C9_FirstAndLastAttempt ==
    /\ Ended
    /\ args.max_retries >= 1
    /\ \E k, l \in DOMAIN batches :
          /\ Len(calls[k]) = 1
          /\ Last(calls[k]).ok
          /\ Len(calls[l]) = args.max_retries + 1
          /\ Last(calls[l]).ok

(* C10: the batches of create_batches, concatenated in order, are the input  *)
(* list; every batch but the last has exactly batch_size events, the last    *)
(* has between 1 and batch_size; an empty input gives no batches.            *)
C10_BatchesPartitionEvents ==
    Missed =>
        /\ Flatten(batches) = args.events
        /\ \A k \in DOMAIN batches :
              /\ 1 <= Len(batches[k])
              /\ Len(batches[k]) <= args.batch_size
              /\ k < Len(batches) => Len(batches[k]) = args.batch_size
        /\ args.events = <<>> => batches = <<>>

\* a full batch followed by a shorter last one
C10_ShortLastBatch ==
    /\ pc = "scoring"
    /\ Len(batches) = 2
    /\ Len(batches[1]) = args.batch_size
    /\ Len(batches[2]) < args.batch_size

\* where the event stands in the list handed to score_all_events
Pos(e) == CHOOSE i \in DOMAIN args.events : args.events[i] = e

(* C11: the list returned after scoring is in non-increasing score order,    *)
(* and entries of equal score stand in the order of their events in the      *)
(* input (batch, then position in the batch), whatever order the responses   *)
(* listed them in; here for events without a repeated uid.                   *)
C11_TiesKeepInputOrder ==
    (pc = "returned" /\ Missed /\ DistinctUids(args.events)) =>
        \A i, j \in DOMAIN result :
            i < j =>
                \/ result[i].score > result[j].score
                \/ /\ result[i].score = result[j].score
                   /\ Pos(result[i].event) <= Pos(result[j].event)

(* C14: a lookup that hits and returns scores returns what a call for the     *)
(* same profile and the same feed content stored.                            *)
C14_HitFromSameProfileAndFeed ==
    (pc = "returned" /\ before.hit /\ before.origin.written /\ result # <<>>) =>
        /\ before.origin.profile = args.profile
        /\ before.origin.ics_path = args.ics_path

\* the total is the sum of the components and each lies in its range
ValidScored(se) ==
    /\ se.score = se.role_relevance + se.topic_alignment + se.strategic_value
    /\ 0 <= se.role_relevance /\ se.role_relevance <= 35
    /\ 0 <= se.topic_alignment /\ se.topic_alignment <= 35
    /\ 0 <= se.strategic_value /\ se.strategic_value <= 30
    /\ 0 <= se.score /\ se.score <= 100

(* C12: every entry score_all_events returns or accumulates, parsed from a   *)
(* response, made as a placeholder or loaded from the cache file an earlier  *)
(* call wrote, has score = role + topic + strategic with the components in   *)
(* 0..35, 0..35, 0..30 and the score in 0..100.                              *)
C12_ScoreIsClampedSum ==
    /\ \A i \in DOMAIN result : ValidScored(result[i])
    /\ \A i \in DOMAIN all_scored : ValidScored(all_scored[i])

\* a cache hit returned an entry parsed from out-of-range components next to
\* a placeholder
C12_HitWithClampedAndPlaceholder ==
    /\ pc = "returned"
    /\ before.hit
    /\ \E i, j \in DOMAIN result :
          /\ result[i].reasoning = "r1"
          /\ result[i].role_relevance = 35
          /\ result[i].topic_alignment = 0
          /\ result[j].reasoning = "Scoring failed: error"

\* the uids the entries of the parsed response name
ResponseUids ==
    {parsed.response.items[i].uid : i \in DOMAIN parsed.response.items}

\* the entries of the parsed value for the event
EntriesOf(e) == {i \in DOMAIN parsed.value : parsed.value[i].event = e}

(* C13: when _parse_response returns, every event of the batch whose uid is  *)
(* not in the response has exactly one entry, with score 0, components 0 and *)
(* the reasoning "Not scored by AI" ("Scoring failed" when the response has  *)
(* no entries at all); no entry comes from a response entry whose uid no     *)
(* event of the batch has; the uids of the result are the uids of the batch. *)
C13_UnscoredGetDefaults ==
    (parsed.response.kind # "none" /\ ~parsed.raised) =>
        /\ \A e \in Range(parsed.events) :
              e.uid \notin ResponseUids =>
                  /\ Cardinality(EntriesOf(e)) = 1
                  /\ \A i \in EntriesOf(e) :
                        /\ parsed.value[i].score = 0
                        /\ parsed.value[i].role_relevance = 0
                        /\ parsed.value[i].topic_alignment = 0
                        /\ parsed.value[i].strategic_value = 0
                        /\ parsed.value[i].reasoning =
                              IF parsed.response.items = <<>>
                              THEN "Scoring failed" ELSE "Not scored by AI"
        /\ \A i \in DOMAIN parsed.value :
              /\ parsed.value[i].event \in Range(parsed.events)
              /\ parsed.value[i].event.uid \in ResponseUids
                    => \E j \in DOMAIN parsed.response.items :
                          /\ parsed.response.items[j].uid
                                = parsed.value[i].event.uid
                          /\ parsed.response.items[j].reasoning
                                = parsed.value[i].reasoning
        /\ {parsed.value[i].event.uid : i \in DOMAIN parsed.value}
              = UidsOf(parsed.events)

\* a batch of two events and a response that names one of them and a uid no
\* event has
C13_OneSkippedOneUnknown ==
    /\ ~parsed.raised
    /\ Len(parsed.events) = 2
    /\ DistinctUids(parsed.events)
    /\ "zz" \in ResponseUids
    /\ Cardinality(ResponseUids \cap UidsOf(parsed.events)) = 1
    /\ Len(parsed.value) = 2

RECURSIVE SumSeq(_)
SumSeq(s) == IF s = <<>> THEN 0 ELSE Head(s) + SumSeq(Tail(s))

\* the failed calls of the batch that were not its last allowed attempt
FailedBeforeLast(k) ==
    {i \in DOMAIN calls[k] : ~calls[k][i].ok /\ i <= args.max_retries}

(* C20: the waits of a batch are 2, 4, ..., one after each failed attempt    *)
(* a (0-indexed, a < max_retries) of 2^(a+1), none after a success or after  *)
(* the last failed attempt; an exhausted batch has waited 2^(max_retries+1)  *)
(* - 2 in total, and every batch starts again at 2.                          *)
C20_WaitsDouble ==
    Missed =>
        \A k \in DOMAIN batches :
            /\ Len(waits[k]) = Cardinality(FailedBeforeLast(k))
            /\ \A i \in DOMAIN waits[k] : waits[k][i] = 2 ^ i
            /\ Exhausted(k) => SumSeq(waits[k]) = 2 ^ (args.max_retries + 1) - 2

\* with max_retries = 2: an exhausted batch waited 2 and 4, and the batch
\* behind it waited 2 before it succeeded
C20_RestartsAtTwo ==
    /\ Ended
    /\ args.max_retries = 2
    /\ \E k \in DOMAIN batches :
          /\ k < Len(batches)
          /\ Exhausted(k)
          /\ waits[k] = <<2, 4>>
          /\ waits[k + 1] = <<2>>
          /\ Last(calls[k + 1]).ok

\* build_timeslots has returned
Slotted == rpc \in {"slotted", "annotated", "picked", "clustered"}

\* the slots that hold the event
SlotsOf(se) ==
    {k \in DOMAIN timeslots : se \in Range(timeslots[k].events)}

\* the summaries of a list of scored events
Summaries(scored) == {scored[i].event.summary : i \in DOMAIN scored}

(* C15: the timeslots of a day of events that end after they start are in   *)
(* chronological order, each ends no later than the next starts, every      *)
(* event of the day is a member of exactly one of them, and every member    *)
(* starts inside its slot, at or after the slot's start and before its end. *)
C15_SlotsPartitionTheDay ==
    Slotted =>
        /\ \A k \in 1..(Len(timeslots) - 1) :
              /\ timeslots[k].start < timeslots[k + 1].start
              /\ timeslots[k].end <= timeslots[k + 1].start
        /\ \A i \in DOMAIN day_events : Cardinality(SlotsOf(day_events[i])) = 1
        /\ SumLen([k \in DOMAIN timeslots |-> timeslots[k].events])
              = Len(day_events)
        /\ \A k \in DOMAIN timeslots :
              \A se \in Range(timeslots[k].events) :
                  /\ timeslots[k].start <= se.event.dtstart
                  /\ se.event.dtstart < timeslots[k].end

\* A, B and C share the first slot although A and C do not overlap, and D
\* has the second slot
C15_ChainSlotThenSingle ==
    /\ Slotted
    /\ Len(timeslots) = 2
    /\ Summaries(timeslots[1].events) = {"A", "B", "C"}
    /\ Summaries(timeslots[2].events) = {"D"}

\* the slot of an event
SlotOf(se) == CHOOSE k \in DOMAIN timeslots : se \in Range(timeslots[k].events)

\* the running end of the sweep after the first i events of the day: the
\* latest end among those of them that share the slot of the i-th
RunningEnd(i) ==
    SetMax({day_events[j].event.dtend :
               j \in {x \in 1..i :
                         SlotOf(day_events[x]) = SlotOf(day_events[i])}})

(* C16: in start order, an event shares the slot of the event before it if  *)
(* and only if it starts strictly before the running end, and otherwise     *)
(* opens the next slot; a slot starts with its earliest member, ends with   *)
(* its latest-ending member and lists its members by non-increasing score;  *)
(* A=[0,30), B=[20,50), D=[100,130) give the slots [0,50) with A and B and  *)
(* [100,130) with D.                                                        *)
C16_SweepJoinsStrictlyBeforeEnd ==
    Slotted =>
        /\ \A i \in 2..Len(day_events) :
              IF day_events[i].event.dtstart < RunningEnd(i - 1)
              THEN SlotOf(day_events[i]) = SlotOf(day_events[i - 1])
              ELSE SlotOf(day_events[i]) = SlotOf(day_events[i - 1]) + 1
        /\ day_events # <<>> => SlotOf(day_events[1]) = 1
        /\ \A k \in DOMAIN timeslots :
              LET m == timeslots[k].events
              IN  /\ m # <<>>
                  /\ timeslots[k].start
                        = -SetMax({-m[i].event.dtstart : i \in DOMAIN m})
                  /\ timeslots[k].end
                        = SetMax({m[i].event.dtend : i \in DOMAIN m})
                  /\ \A i \in 1..(Len(m) - 1) : m[i].score >= m[i + 1].score
        /\ Summaries(day_events) = {"A", "B", "D"} =>
              /\ Len(timeslots) = 2
              /\ timeslots[1].start = 0 /\ timeslots[1].end = 50
              /\ Summaries(timeslots[1].events) = {"A", "B"}
              /\ timeslots[2].start = 100 /\ timeslots[2].end = 130
              /\ Summaries(timeslots[2].events) = {"D"}

\* the day of A=[0,30), B=[20,50) and D=[100,130) has been slotted
C16_MergeExample ==
    /\ Slotted
    /\ Summaries(day_events) = {"A", "B", "D"}
    /\ Len(timeslots) = 2
    /\ Len(timeslots[1].events) = 2

\* the top picks of the day have been chosen
Picked == rpc \in {"picked", "clustered"}

\* the pairs <<summary, score>> of a list of scored events, in order
Marks(scored) ==
    [i \in DOMAIN scored |-> <<scored[i].event.summary, scored[i].score>>]

(* C17: the top picks of a day are events of the day with a score of at     *)
(* least 50, no two of them overlap, and they are listed by non-decreasing  *)
(* start; for 90 at 9:00-10:00, 40 at 9:00-10:00 and 70 at 11:00-12:00 the  *)
(* picks are the 90 at 9:00 and then the 70 at 11:00.                      *)
C17_PicksAboveThresholdApart ==
    Picked =>
        /\ Range(top_picks) \subseteq Range(day_events)
        /\ \A i \in DOMAIN top_picks : top_picks[i].score >= 50
        /\ \A i, j \in DOMAIN top_picks :
              i # j =>
                  ~(/\ top_picks[i].event.dtstart < top_picks[j].event.dtend
                    /\ top_picks[j].event.dtstart < top_picks[i].event.dtend)
        /\ \A i \in 1..(Len(top_picks) - 1) :
              top_picks[i].event.dtstart <= top_picks[i + 1].event.dtstart
        /\ Range(Marks(day_events)) = {<<"G", 90>>, <<"H", 40>>, <<"I", 70>>}
              => Marks(top_picks) = <<(<<"G", 90>>), (<<"I", 70>>)>>

\* the day of the example has its two picks
C17_PickExample ==
    /\ Picked
    /\ Range(Marks(day_events)) = {<<"G", 90>>, <<"H", 40>>, <<"I", 70>>}
    /\ Len(top_picks) = 2

\* the annotations of the day have been made
Annotated == rpc \in {"annotated", "picked", "clustered"}

\* the members of slot k that overlap its member i, as positions
Overlapping(k, i) ==
    LET m == timeslots[k].events
    IN  {j \in DOMAIN m :
            /\ j # i
            /\ m[i].event.dtstart < m[j].event.dtend
            /\ m[j].event.dtstart < m[i].event.dtend}

\* the score of the member of slot k with the summary
ScoreOfName(k, name) ==
    LET m == timeslots[k].events
    IN  m[CHOOSE j \in DOMAIN m : m[j].event.summary = name].score

\* the names the annotation of the member with the summary keeps
NamesOf(k, name) ==
    LET a == annotated[k]
    IN  Range(a[CHOOSE i \in DOMAIN a :
                     a[i].scored_event.event.summary = name].conflict_names)

(* C18: the annotation of a slot member counts exactly the other members    *)
(* that overlap it, never itself, and the relation is symmetric; the names  *)
(* kept are those of the at most 3 highest-scoring of them, in              *)
(* non-increasing score order; conflict_extra is max(0, conflict_count - 3) *)
(* and best_alternative is set, to the highest-scoring of them, if and only *)
(* if that score is strictly greater than the member's own. For A=[0,30),   *)
(* B=[20,50), C=[45,70) the view pairs A with B and B with C but not A with *)
(* C.                                                                       *)
C18_DirectConflictView ==
    Annotated =>
        /\ Len(annotated) = Len(timeslots)
        /\ \A k \in DOMAIN timeslots :
              LET m == timeslots[k].events
                  a == annotated[k]
              IN  /\ Len(a) = Len(m)
                  /\ \A i \in DOMAIN m :
                        LET D == Overlapping(k, i)
                            names == a[i].conflict_names
                            best == a[i].best_alternative
                        IN  /\ a[i].scored_event = m[i]
                            /\ a[i].conflict_count = Cardinality(D)
                            /\ a[i].has_conflict <=> D # {}
                            /\ Len(names) = Min2(3, Cardinality(D))
                            /\ Range(names) \subseteq
                                  {m[j].event.summary : j \in D}
                            /\ Cardinality(Range(names)) = Len(names)
                            /\ m[i].event.summary \notin Range(names)
                            /\ \A x \in 1..(Len(names) - 1) :
                                  ScoreOfName(k, names[x])
                                      >= ScoreOfName(k, names[x + 1])
                            /\ \A j \in D :
                                  m[j].event.summary \notin Range(names) =>
                                      \A x \in DOMAIN names :
                                          ScoreOfName(k, names[x])
                                              >= m[j].score
                            /\ a[i].conflict_extra
                                  = Max2(0, a[i].conflict_count - 3)
                            /\ best # <<>> <=>
                                  \E j \in D : m[j].score > m[i].score
                            /\ best # <<>> =>
                                  /\ Len(best) = 1
                                  /\ best[1].event.summary = names[1]
                                  /\ \A j \in D : m[j].score <= best[1].score
                            /\ \A j \in DOMAIN m :
                                  (j \in D) <=> (i \in Overlapping(k, j))
                            /\ \A j \in DOMAIN m :
                                  (/\ a[i].conflict_count <= 3
                                   /\ a[j].conflict_count <= 3) =>
                                      (m[j].event.summary \in Range(names)
                                         <=> m[i].event.summary
                                               \in Range(a[j].conflict_names))
        /\ Summaries(day_events) = {"A", "B", "C"} =>
              /\ Len(timeslots) = 1
              /\ NamesOf(1, "A") = {"B"}
              /\ NamesOf(1, "B") = {"A", "C"}
              /\ NamesOf(1, "C") = {"B"}

\* a member with four direct conflicts, one name dropped, and a better
\* alternative
C18_FourConflictsOneBetter ==
    /\ Annotated
    /\ \E k \in DOMAIN annotated :
          \E i \in DOMAIN annotated[k] :
              /\ annotated[k][i].conflict_count = 4
              /\ annotated[k][i].conflict_extra = 1
              /\ annotated[k][i].best_alternative # <<>>

\* the cluster view of the day has been computed
Clustered == rpc = "clustered"

\* members i and j of slot k overlap
Edge(k, i, j) ==
    LET m == timeslots[k].events
    IN  /\ i # j
        /\ m[i].event.dtstart < m[j].event.dtend
        /\ m[j].event.dtstart < m[i].event.dtend

\* S is a connected component of the overlap relation of slot k: it cannot
\* be split in two parts without an overlap across, and no member outside
\* overlaps one inside
IsComponent(k, S) ==
    /\ S # {}
    /\ \A T \in SUBSET S :
          (T # {} /\ T # S) => \E i \in T, j \in S \ T : Edge(k, i, j)
    /\ \A i \in S, j \in DOMAIN timeslots[k].events \ S : ~Edge(k, i, j)

(* C19: the clusters of a timeslot are exactly the connected components of  *)
(* the pairwise overlap relation of its members that have more than one     *)
(* member, each reported once; a member that overlaps no other is in no     *)
(* cluster; for A=[0,30), B=[20,50), C=[45,70) the one cluster holds A, B   *)
(* and C.                                                                   *)
C19_ClustersAreComponents ==
    Clustered =>
        /\ Len(clusters) = Len(timeslots)
        /\ \A k \in DOMAIN timeslots :
              /\ Range(clusters[k])
                    = {S \in SUBSET DOMAIN timeslots[k].events :
                          Cardinality(S) > 1 /\ IsComponent(k, S)}
              /\ Cardinality(Range(clusters[k])) = Len(clusters[k])
              /\ \A i \in DOMAIN timeslots[k].events :
                    (\A j \in DOMAIN timeslots[k].events : ~Edge(k, i, j))
                        => \A c \in DOMAIN clusters[k] : i \notin clusters[k][c]
        /\ Summaries(day_events) = {"A", "B", "C"} =>
              /\ Len(timeslots) = 1
              /\ clusters[1] = <<{1, 2, 3}>>

\* A, B and C form one cluster of three although A and C do not overlap, and
\* D, alone in its slot, forms none
C19_ChainClusterAndSingle ==
    /\ Clustered
    /\ Summaries(day_events) = {"A", "B", "C", "D"}
    /\ Len(clusters) = 2
    /\ Len(clusters[1]) = 1
    /\ Cardinality(clusters[1][1]) = 3
    /\ clusters[2] = <<>>

\* batch k has had a successful call or max_retries + 1 calls
BatchOver(k) ==
    /\ calls[k] # <<>>
    /\ Last(calls[k]).ok \/ Len(calls[k]) = args.max_retries + 1

(* C21: every step of the batch loop makes exactly one scorer call, for the  *)
(* batch the loop is at; at that moment every earlier batch has succeeded or *)
(* used up its attempts and no later batch has had a call; the loop moves to *)
(* the next batch only when this one has succeeded or used up its attempts,  *)
(* and what the batch adds goes behind what the earlier batches added.       *)
C21_OneBatchAtATime ==
    [][pc = "scoring" =>
          LET k == batch_no
              call == Last(calls'[k])
              added == IF call.ok THEN call.value
                       ELSE PlaceholdersOf(batches[k])
              over == call.ok \/ Len(calls'[k]) = args.max_retries + 1
          IN  /\ \A j \in 1..(k - 1) : BatchOver(j)
              /\ \A j \in (k + 1)..Len(batches) : calls[j] = <<>>
              /\ calls' = [calls EXCEPT ![k] = Append(@, call)]
              /\ ~over => /\ batch_no' = k
                          /\ pc' = "scoring"
                          /\ all_scored' = all_scored
              /\ (over /\ k < Len(batches))
                    => /\ batch_no' = k + 1
                       /\ pc' = "scoring"
                       /\ all_scored' = all_scored \o added
              /\ (over /\ k = Len(batches))
                    => /\ pc' \in {"returned", "raised"}
                       /\ SameElements(all_scored', all_scored \o added)]_vars

\* the second batch got its first call after the first batch had failed
\* once and then succeeded
C21_SecondBatchAfterRetry ==
    /\ pc = "scoring"
    /\ batch_no = 2
    /\ Len(calls[1]) = 2
    /\ Last(calls[1]).ok
    /\ Len(calls[2]) = 1
    /\ all_scored # <<>>

\* ceil(N / batch_size) * (max_retries + 1)
CallBudget ==
    ((Len(args.events) + args.batch_size - 1) \div args.batch_size)
        * (args.max_retries + 1)

(* C22: a call of score_all_events that has entered the batch loop           *)
(* eventually returns its list to the caller, and at no time has it made     *)
(* more than ceil(N / batch_size) * (max_retries + 1) scorer calls.          *)
C22_RunReturnsWithinBudget ==
    /\ [](pc = "scoring" => <>(pc = "returned"))
    /\ [](NCalls <= CallBudget)

\* the positions in day_events of the events that are top picks
PickedAt == {i \in DOMAIN day_events : day_events[i] \in Range(top_picks)}

\* the reference greedy visits the event at i before the event at j: higher
\* score first, equal scores in the order of the day
VisitedBefore(i, j) ==
    \/ day_events[i].score > day_events[j].score
    \/ day_events[i].score = day_events[j].score /\ i < j

\* the events at i and j overlap
Overlap(i, j) ==
    /\ day_events[i].event.dtstart < day_events[j].event.dtend
    /\ day_events[j].event.dtstart < day_events[i].event.dtend

(* C23: the top picks of a day are the events the reference greedy accepts:  *)
(* visiting the day's events by non-increasing score, equal scores in the    *)
(* day's start order, an event is accepted if and only if its score is at    *)
(* least 50 and it overlaps no event accepted before it. So the first        *)
(* visited event with a score of at least 50 is a pick, and every event with *)
(* a score of at least 50 that is no pick overlaps a pick whose score is at  *)
(* least its own. The list holds each accepted event once.                   *)
C23_PicksAreTheGreedyChoice ==
    Picked =>
        /\ Range(top_picks) \subseteq Range(day_events)
        /\ Cardinality(Range(top_picks)) = Len(top_picks)
        /\ \A i \in DOMAIN day_events :
              i \in PickedAt <=>
                  /\ day_events[i].score >= 50
                  /\ \A j \in PickedAt : VisitedBefore(j, i) => ~Overlap(i, j)
        /\ \A i \in DOMAIN day_events :
              (/\ day_events[i].score >= 50
               /\ \A j \in DOMAIN day_events \ {i} : VisitedBefore(i, j))
                  => i \in PickedAt
        /\ \A i \in DOMAIN day_events \ PickedAt :
              day_events[i].score >= 50 =>
                  \E j \in PickedAt :
                      /\ Overlap(i, j)
                      /\ day_events[j].score >= day_events[i].score

\* of two overlapping events with the same score the earlier of the day is
\* picked, and a later event with a higher score than an earlier one that
\* overlaps it wins over it
C23_TieAndLaterWinner ==
    /\ Picked
    /\ \E i, j \in DOMAIN day_events :
          /\ i < j
          /\ day_events[i].score = day_events[j].score
          /\ Overlap(i, j)
          /\ i \in PickedAt
          /\ j \notin PickedAt
    /\ \E i, j \in DOMAIN day_events :
          /\ i < j
          /\ day_events[i].score >= 50
          /\ day_events[i].score < day_events[j].score
          /\ Overlap(i, j)
          /\ j \in PickedAt

(* C24: whatever the response holds, _parse_response raises nothing and      *)
(* returns a list with an entry for every event of the batch.                *)
C24_ParseNeverRaises ==
    parsed.response.kind # "none" =>
        /\ ~parsed.raised
        /\ \A e \in Range(parsed.events) :
              \E i \in DOMAIN parsed.value : parsed.value[i].event.uid = e.uid

\* the call in progress or just ended
InCall == pc \in {"scoring", "returned", "raised"}

\* the record of a list of scored events, as the cache file holds it
RecordOf(scored) ==
    File("list",
         [i \in DOMAIN scored |->
             [uid |-> scored[i].event.uid, score |-> scored[i].score,
              role_relevance |-> scored[i].role_relevance,
              topic_alignment |-> scored[i].topic_alignment,
              strategic_value |-> scored[i].strategic_value,
              reasoning |-> scored[i].reasoning]])

(* C25: a call with the cache disabled never hits and never touches the      *)
(* cache file; a call that hits leaves the file as it found it; while the    *)
(* batch loop runs the file is as the call found it and no write has been    *)
(* tried; a call that misses tries the write exactly once, in the step that  *)
(* ends the call after the last batch, and a call that returns after a miss  *)
(* leaves as the file the record of the whole sorted list it returns,        *)
(* whatever the file held before. No step changes any other file.            *)
C25_WriteOnlyAtTheEnd ==
    /\ [](InCall =>
            /\ args.no_cache
                  => /\ ~before.hit
                     /\ saves = 0
                     /\ store[PathOf(args)] = before.file
            /\ before.hit
                  => /\ saves = 0
                     /\ NCalls = 0
                     /\ store[PathOf(args)] = before.file
            /\ pc = "scoring"
                  => /\ saves = 0
                     /\ store[PathOf(args)] = before.file
            /\ (Missed /\ Ended /\ ~args.no_cache) => saves = 1
            /\ (Missed /\ pc = "returned" /\ ~args.no_cache)
                  => /\ store[PathOf(args)] = RecordOf(result)
                     /\ SameElements(result, Contributions(Len(batches)))
                     /\ \A i \in 1..(Len(result) - 1) :
                           result[i].score >= result[i + 1].score)
    /\ [][store' # store =>
             /\ pc' \in {"returned", "raised"}
             /\ saves' = 1
             /\ ~args'.no_cache
             /\ ~before'.hit
             /\ pc = "scoring" => batch_no = Len(batches)
             /\ \A f \in CachePaths :
                   f # PathOf(args') => store'[f] = store[f]]_vars

\* a call of two batches missed on a record it found and left its own list
\* as the file
C25_RecordOverwritten ==
    /\ pc = "returned"
    /\ ~args.no_cache
    /\ ~before.hit
    /\ before.file.kind = "list"
    /\ Len(batches) = 2
    /\ saves = 1
    /\ store[PathOf(args)] # before.file

\* the entry is the placeholder of an event whose batch used up its attempts
IsPlaceholder(se) ==
    se.score = 0 /\ se.reasoning = "Scoring failed: error"

(* C26: a call with the cache enabled that finds the file an earlier call    *)
(* wrote for the same profile name, the same feed and the same events (no    *)
(* two of them with the same uid), a batch of which had used up its          *)
(* attempts, hits the cache, calls the scorer zero times and returns the     *)
(* list of the earlier call, placeholders included.                          *)
C26_PlaceholdersServedFromCache ==
    (/\ InCall
     /\ ~args.no_cache
     /\ before.origin.written
     /\ before.origin.profile.name = args.profile.name
     /\ before.origin.ics_path = args.ics_path
     /\ before.origin.events = args.events
     /\ DistinctUids(args.events)
     /\ \E i \in DOMAIN before.origin.result :
           IsPlaceholder(before.origin.result[i]))
    => /\ before.hit
       /\ pc = "returned"
       /\ NCalls = 0
       /\ result = before.origin.result
       /\ \E i \in DOMAIN result : IsPlaceholder(result[i])

(* C27: in a timeslot of two or more members every member overlaps another   *)
(* member of the slot and the members hang together by overlaps; the direct  *)
(* view then marks every member has_conflict and TimeSlot.has_conflicts is   *)
(* true; a slot is without conflict if and only if it has one member.        *)
C27_SlotsHangTogether ==
    Annotated =>
        \A k \in DOMAIN timeslots :
            LET m == timeslots[k].events
            IN  /\ Len(m) >= 2 =>
                      /\ \A i \in DOMAIN m : \E j \in DOMAIN m : Edge(k, i, j)
                      /\ IsComponent(k, DOMAIN m)
                      /\ \A i \in DOMAIN m : annotated[k][i].has_conflict
                      /\ has_conflicts(timeslots[k])
                /\ ~has_conflicts(timeslots[k]) <=> Len(m) = 1
                /\ (\A i \in DOMAIN m : ~annotated[k][i].has_conflict)
                      <=> Len(m) = 1

\* a slot of four in which A overlaps neither F nor C, every member marked,
\* and D alone in its slot, unmarked
C27_ChainAllMarked ==
    /\ Annotated
    /\ Len(timeslots) = 2
    /\ Summaries(timeslots[1].events) = {"A", "B", "F", "C"}
    /\ \A i \in DOMAIN annotated[1] : annotated[1][i].has_conflict
    /\ Len(timeslots[2].events) = 1
    /\ ~annotated[2][1].has_conflict

====
